---- MODULE Spec2Model ----
(***************************************************************************)
(* Model of the Expertbase-Builder: the ORCID aggregation helpers          *)
(* (orcid_aggregator.py), the Expert record (expert.py) and the ExpertBase *)
(* collection (expertbase.py).                                             *)
(*                                                                         *)
(* Each component has its own specification over the shared variables; a   *)
(* component's Init leaves the other components' variables at rest.        *)
(*   SpecEmployment : extract_current_employments on registry payloads     *)
(*   SpecWiki       : search_wikidata_id, its retry loop and backoff       *)
(*   SpecPopulate   : populate_from_csv, serialize_expertbase and          *)
(*                    deserialize_expertbase                               *)
(*   SpecMerge      : add_properties_from_csv on a populated ExpertBase    *)
(*   SpecExports    : a caller of get_properties, get_base,                *)
(*                    get_expert_as_list and get_orcids_as_list            *)
(*   SpecOrganisation : Expert.get_organisation                            *)
(*   SpecFiles      : the file objects the file operations open            *)
(*   SpecRead       : the read accessors of Expert                         *)
(*                                                                         *)
(* Python strings are TLA+ strings; the table Text gives the characters of *)
(* those the code inspects (lower, strip, lstrip, split).  Python lists    *)
(* are references into heap, so that two dictionaries can hold one list.   *)
(***************************************************************************)
EXTENDS Integers, Sequences, FiniteSets, TLC

VARIABLES
    \* ---- extract_current_employments ----
    today,                \* date.today() as <<year, month, day>>
    orcid_data,           \* the /activities payload: its affiliation groups
    current_employments,  \* the returned list of [role, department, organization]
    emp_pc,               \* "call" | "done" | "raised"
    emp_exc,              \* the exception that left the function, "" if none
    \* ---- search_wikidata_id ----
    search_string,        \* the organisation name looked up
    max_retries,          \* the retry budget
    retries,              \* 429 responses counted so far
    backoff,              \* the next delay, in seconds
    requests,             \* the responses received, one per request issued
    sleeps,               \* the delays slept, in order
    wd_pc,                \* "loop" | "returned" | "raised"
    wd_result,            \* the returned string
    \* ---- ExpertBase ----
    base,                 \* self.base: orcid -> the Expert's properties
    raw_base,             \* self.raw_base: orcid -> the mirrored dictionary
    heap,                 \* the list objects the dictionaries refer to
    \* ---- populate_from_csv ----
    id_csv,               \* the data rows of the identifier CSV
    registry,             \* orcid -> how the fetch of each sub-resource ends
    orcids,               \* the list read_orcids_from_csv returns
    tadirah_map,          \* the dictionary create_tadirah_map returns
    pop_i,                \* position of the loop in orcids
    pop_pc,               \* "call" | "loop" | "done" | "raised"
    pop_exc,              \* the exception that left populate_from_csv
    fetched,              \* the fetches issued: <<position, sub-resource>>
    \* ---- serialize_expertbase / deserialize_expertbase ----
    store,                \* the JSON file: [written, doc]
    reloaded,             \* the ExpertBase built from the store: [done, base, raw_base]
    \* ---- add_properties_from_csv ----
    ov_csv,               \* the override CSV: [exists, header, rows]
    merge_pc,             \* "call" | "rows" | "returned" | "raised"
    merge_exc,            \* the exception that left add_properties_from_csv
    row_i,                \* position of the loop in the data rows
    pass,                 \* 1 for the first call with this file, 2 for the second
    applied,              \* the row the loop handled last, 0 before the first
    prev_base,            \* base before that row
    prev_raw,             \* raw_base before that row
    start_base,           \* base when the running call began
    start_raw,            \* raw_base when the running call began
    \* ---- a caller of the export accessors ----
    snap,                 \* the dictionary Expert.get_properties returned: [taken, orcid, props]
    held,                 \* the container get_base / get_expert_as_list /
                          \* get_orcids_as_list returned: [kind, keys]
    edits,                \* changes the caller has made to what it was given
    \* ---- Expert.get_organisation ----
    org_emps,             \* the record's current employments: [role, department, organization]
    resolver,             \* organization name -> what search_wikidata_id returns for it
    organisations,        \* the local list organisations
    qids,                 \* the local dict qids, as its <<key, value>> pairs in insertion order
    org_i,                \* the position of the running loop
    org_pc,               \* "collect" | "resolve" | "returned"
    org_result,           \* the returned list
    \* ---- file handles ----
    file_op,              \* the file operation that runs or ran last
    file_pc,              \* "idle" | "opened" | "ended"
    file_end,             \* how it ended: "return" | "early" | "raised", "" before
    handles,              \* the file objects opened so far: [op, open]
    \* ---- the read accessors of Expert ----
    before,               \* base, raw_base and the store JSON before the first call
    reads,                \* accessor calls made
    read_out,             \* what the last call returned: [kind, s, items]
    read_exc              \* the exception the last call raised, "" if none

empVars == <<today, orcid_data, current_employments, emp_pc, emp_exc>>

wikiVars == <<search_string, max_retries, retries, backoff, requests, sleeps,
              wd_pc, wd_result>>

ebVars == <<base, raw_base, heap>>

popVars == <<id_csv, registry, orcids, tadirah_map, pop_i, pop_pc, pop_exc, fetched>>

storeVars == <<store, reloaded>>

mergeVars == <<ov_csv, merge_pc, merge_exc, row_i, pass, applied, prev_base, prev_raw,
               start_base, start_raw>>

aliasVars == <<snap, held, edits>>
orgVars == <<org_emps, resolver, organisations, qids, org_i, org_pc, org_result>>
fileVars == <<file_op, file_pc, file_end, handles>>
readVars == <<before, reads, read_out, read_exc>>
laterVars == <<orgVars, fileVars, readVars>>

vars == <<empVars, wikiVars, ebVars, popVars, storeVars, mergeVars, aliasVars, laterVars>>

\* What the actions of one component leave alone.
empRest == <<wikiVars, ebVars, popVars, storeVars, mergeVars, aliasVars, laterVars>>
wikiRest == <<empVars, ebVars, popVars, storeVars, mergeVars, aliasVars, laterVars>>
popRest == <<empVars, wikiVars, mergeVars, aliasVars, laterVars>>
mergeRest == <<empVars, wikiVars, popVars, storeVars, aliasVars, laterVars>>
aliasRest == <<empVars, wikiVars, popVars, storeVars, mergeVars, laterVars>>
orgRest == <<empVars, wikiVars, ebVars, popVars, storeVars, mergeVars, aliasVars, fileVars, readVars>>
fileRest == <<empVars, wikiVars, ebVars, popVars, storeVars, mergeVars, aliasVars, orgVars, readVars>>
readRest == <<empVars, wikiVars, popVars, storeVars, mergeVars, aliasVars, orgVars, fileVars>>

(***************************************************************************)
(* Bounds of the model.                                                    *)
(***************************************************************************)
MaxGroups == 2      \* affiliation groups in one /activities payload
MaxRetries == 7     \* largest retry budget a caller passes
MaxIds == 2         \* data rows of the identifier CSV
MaxRows == 2        \* data rows of the override CSV
MaxEdits == 2       \* changes a caller makes to exported values
MaxEmps == 3        \* current employments of one record
MaxOps == 2         \* file operations run one after the other
MaxKeywords == 2    \* research interests of one record
MaxReads == 2       \* accessor calls made one after the other

(***************************************************************************)
(* Generic helpers.                                                        *)
(***************************************************************************)
SeqsUpTo(S, n) == UNION {[1..k -> S] : k \in 0..n}

\* Python computes x before it goes on to e.
Then(x, e) == IF x = x THEN e ELSE e

\* A dict lookup that may miss: [has |-> FALSE] is an absent key.
Absent == [has |-> FALSE, s |-> ""]
Some(str) == [has |-> TRUE, s |-> str]

\* dict.get(key, "") on an optional string entry.
GetOr(opt, default) == IF opt.has THEN opt.s ELSE default

(***************************************************************************)
(* int(): the number a string of decimal digits denotes.                   *)
(***************************************************************************)
RECURSIVE ParseInt(_)
ParseInt(ds) ==
    IF Len(ds) = 0 THEN 0
    ELSE 10 * ParseInt(SubSeq(ds, 1, Len(ds) - 1)) + ds[Len(ds)]

(***************************************************************************)
(* datetime.date: construction fails on a day that does not exist, and     *)
(* dates are ordered as (year, month, day).                                *)
(***************************************************************************)
IsLeap(y) == (y % 4 = 0 /\ y % 100 # 0) \/ y % 400 = 0

DaysInMonth(y, m) ==
    IF m = 2 THEN (IF IsLeap(y) THEN 29 ELSE 28)
    ELSE IF m \in {4, 6, 9, 11} THEN 30 ELSE 31

DateValid(y, m, d) ==
    /\ y \in 1..9999
    /\ m \in 1..12
    /\ d >= 1 /\ d <= DaysInMonth(y, m)

DateAfterLax(a, b) ==
    \/ a[1] > b[1]
    \/ a[1] = b[1] /\ a[2] > b[2]
    \/ a[1] = b[1] /\ a[2] = b[2] /\ a[3] >= b[3]

\* given_date > today
DateAfter(a, b) ==
    \/ a[1] > b[1]
    \/ a[1] = b[1] /\ a[2] > b[2]
    \/ a[1] = b[1] /\ a[2] = b[2] /\ a[3] > b[3]

(***************************************************************************)
(* The registry's date parts.  A part of an end-date ("year", "month",     *)
(* "day") is one of                                                        *)
(*   absent     the key is not in the end-date object                      *)
(*   null       the key maps to None                                       *)
(*   nullvalue  the key maps to {"value": None}                            *)
(*   val        the key maps to {"value": "<digits>"}                      *)
(***************************************************************************)
PartAbsent == [k |-> "absent", v |-> <<>>]
PartNull == [k |-> "null", v |-> <<>>]
PartNullValue == [k |-> "nullvalue", v |-> <<>>]
PartVal(ds) == [k |-> "val", v |-> ds]

\* An end-date: the key is absent, or maps to None, or to an object.
EndAbsent == [k |-> "absent", year |-> PartAbsent, month |-> PartAbsent, day |-> PartAbsent]
EndNull == [k |-> "null", year |-> PartAbsent, month |-> PartAbsent, day |-> PartAbsent]
EndObj(y, m, d) == [k |-> "obj", year |-> y, month |-> m, day |-> d]

\* [role-title, department-name, organization.name] with "" for missing keys
EmploymentTriple(summary) ==
    <<GetOr(summary.role, ""), GetOr(summary.dept, ""), GetOr(summary.org, "")>>

\* (end.get(part) or {}).get('value', 1), then int(...) if not None else 1
PartOrOne(part) == IF part.k = "val" THEN ParseInt(part.v) ELSE 1

SentinelYear == 2050

\* year = int(year_val) if year_val is not None else 2050
YearOrSentinel(part) == IF part.k = "val" THEN ParseInt(part.v) ELSE SentinelYear

Keep(triple) == [st |-> "ok", exc |-> "", add |-> <<triple>>]
Skip == [st |-> "ok", exc |-> "", add |-> <<>>]
Raise(e) == [st |-> "raised", exc |-> e, add |-> <<>>]

\* Lines 118-134: the date built from the end-date, compared with today.
CompareEndDateLax(summary, now) ==
    LET end == summary.end
        year == YearOrSentinel(end.year)
        month == PartOrOne(end.month)
        day == PartOrOne(end.day)
    IN  IF ~DateValid(year, month, day) THEN Raise("ValueError")
        ELSE IF DateAfterLax(<<year, month, day>>, now)
             THEN Keep(EmploymentTriple(summary))
             ELSE Skip

CompareEndDate(summary, now) ==
    LET end == summary.end
        year == YearOrSentinel(end.year)
        month == PartOrOne(end.month)
        day == PartOrOne(end.day)
    IN  IF ~DateValid(year, month, day) THEN Raise("ValueError")
        ELSE IF DateAfter(<<year, month, day>>, now)
             THEN Keep(EmploymentTriple(summary))
             ELSE Skip

\* Line 111: int(current_summary["end-date"]["year"]['value']) < date.today().year
\* The subscripts raise on a missing key, on None and on a None value.
YearLookup(end) ==
    CASE end.year.k = "absent"    -> Raise("KeyError")
      [] end.year.k = "null"      -> Raise("TypeError")
      [] end.year.k = "nullvalue" -> Raise("TypeError")
      [] OTHER                    -> Skip

\* One pass of the loop body, lines 100-134, for one affiliation group.
ResolveGroup(group, now) ==
    IF Len(group) = 0 THEN Raise("IndexError")            \* summaries[0]
    ELSE LET summary == group[1] IN
         IF summary.end.k = "absent" THEN Raise("KeyError")   \* ["end-date"]
         ELSE IF summary.end.k = "null" THEN Keep(EmploymentTriple(summary))
         ELSE IF YearLookup(summary.end).st = "raised" THEN YearLookup(summary.end)
         ELSE IF ParseInt(summary.end.year.v) < now[1] THEN Skip
         ELSE CompareEndDate(summary, now)

\* The loop of lines 98-136 from group i on, with the list built so far.
RECURSIVE ResolveFrom(_, _, _, _)
ResolveFrom(groups, i, acc, now) ==
    IF i > Len(groups) THEN [st |-> "done", exc |-> "", out |-> acc]
    ELSE LET r == ResolveGroup(groups[i], now) IN
         IF r.st = "raised" THEN [st |-> "raised", exc |-> r.exc, out |-> <<>>]
         ELSE ResolveFrom(groups, i + 1, acc \o r.add, now)

extract_current_employments(groups, now) == ResolveFrom(groups, 1, <<>>, now)

(***************************************************************************)
(* Payloads the registry can answer with.                                  *)
(***************************************************************************)
Y2023 == <<2, 0, 2, 3>>
Y2024 == <<2, 0, 2, 4>>
Y2025 == <<2, 0, 2, 5>>
M06 == <<0, 6>>
M07 == <<0, 7>>
D15 == <<1, 5>>
D16 == <<1, 6>>
D31 == <<3, 1>>

EndDates ==
    { EndAbsent, EndNull,
      EndObj(PartAbsent, PartAbsent, PartAbsent),
      EndObj(PartNull, PartVal(M07), PartVal(D16)),
      EndObj(PartNullValue, PartAbsent, PartAbsent),
      EndObj(PartVal(Y2023), PartAbsent, PartAbsent),
      EndObj(PartVal(Y2023), PartVal(M07), PartVal(D16)),
      EndObj(PartVal(Y2024), PartAbsent, PartAbsent),
      EndObj(PartVal(Y2024), PartVal(M06), PartNull),
      EndObj(PartVal(Y2024), PartVal(M06), PartVal(D15)),
      EndObj(PartVal(Y2024), PartVal(M06), PartVal(D16)),
      EndObj(PartVal(Y2024), PartVal(M07), PartNullValue),
      EndObj(PartVal(Y2024), PartVal(M06), PartVal(D31)),
      EndObj(PartVal(Y2025), PartAbsent, PartAbsent) }

Labels ==
    { [role |-> Some("Professor"), dept |-> Some("Informatik"), org |-> Some("Uni A")],
      [role |-> Absent, dept |-> Absent, org |-> Some("Uni B")] }

Summaries ==
    { [end |-> e, role |-> l.role, dept |-> l.dept, org |-> l.org] :
        e \in EndDates, l \in Labels }

\* An affiliation group is its list of summaries; only the first is read.
Groups == { <<s>> : s \in Summaries } \cup { <<>> }

Todays == { <<2024, 6, 15>>, <<2023, 7, 16>> }

(***************************************************************************)
(* SpecEmployment: one call of extract_current_employments.                *)
(***************************************************************************)
EmpIdle ==
    /\ today = <<0, 0, 0>>
    /\ orcid_data = <<>>
    /\ current_employments = <<>>
    /\ emp_pc = "idle"
    /\ emp_exc = ""

OrgIdle ==
    /\ org_emps = <<>>
    /\ resolver = <<>>
    /\ organisations = <<>>
    /\ qids = <<>>
    /\ org_i = 0
    /\ org_pc = "idle"
    /\ org_result = <<>>

FileIdle ==
    /\ file_op = ""
    /\ file_pc = "idle"
    /\ file_end = ""
    /\ handles = <<>>

NoOut == [kind |-> "none", s |-> "", items |-> <<>>]

ReadIdle ==
    /\ before = <<>>
    /\ reads = 0
    /\ read_out = NoOut
    /\ read_exc = ""

LaterIdle == OrgIdle /\ FileIdle /\ ReadIdle

AliasIdle ==
    /\ snap = [taken |-> FALSE, orcid |-> "", props |-> <<>>]
    /\ held = [kind |-> "none", keys |-> <<>>]
    /\ edits = 0

MergeIdle ==
    /\ ov_csv = [exists |-> FALSE, header |-> <<>>, rows |-> <<>>]
    /\ merge_pc = "idle"
    /\ merge_exc = ""
    /\ row_i = 0
    /\ pass = 0
    /\ applied = 0
    /\ prev_base = <<>>
    /\ prev_raw = <<>>
    /\ start_base = <<>>
    /\ start_raw = <<>>

PopulateIdle ==
    /\ id_csv = <<>>
    /\ registry = <<>>
    /\ orcids = <<>>
    /\ tadirah_map = <<>>
    /\ pop_i = 0
    /\ pop_pc = "idle"
    /\ pop_exc = ""
    /\ fetched = <<>>

StoreIdle ==
    /\ store = [written |-> FALSE, doc |-> <<>>]
    /\ reloaded = [done |-> FALSE, base |-> <<>>, raw_base |-> <<>>]

BaseIdle ==
    /\ MergeIdle
    /\ AliasIdle
    /\ base = <<>>
    /\ raw_base = <<>>
    /\ heap = <<>>
    /\ id_csv = <<>>
    /\ registry = <<>>
    /\ orcids = <<>>
    /\ tadirah_map = <<>>
    /\ pop_i = 0
    /\ pop_pc = "idle"
    /\ pop_exc = ""
    /\ fetched = <<>>
    /\ store = [written |-> FALSE, doc |-> <<>>]
    /\ reloaded = [done |-> FALSE, base |-> <<>>, raw_base |-> <<>>]

WikiIdle ==
    /\ search_string = ""
    /\ max_retries = 0
    /\ retries = 0
    /\ backoff = 0
    /\ requests = <<>>
    /\ sleeps = <<>>
    /\ wd_pc = "idle"
    /\ wd_result = ""

InitEmployment ==
    /\ WikiIdle
    /\ BaseIdle
    /\ LaterIdle
    /\ today \in Todays
    /\ orcid_data \in SeqsUpTo(Groups, MaxGroups)
    /\ current_employments = <<>>
    /\ emp_pc = "call"
    /\ emp_exc = ""

ExtractReturns ==
    /\ emp_pc = "call"
    /\ extract_current_employments(orcid_data, today).st = "done"
    /\ current_employments' = extract_current_employments(orcid_data, today).out
    /\ emp_pc' = "done"
    /\ UNCHANGED <<today, orcid_data, emp_exc>>
    /\ UNCHANGED empRest

ExtractRaises ==
    /\ emp_pc = "call"
    /\ extract_current_employments(orcid_data, today).st = "raised"
    /\ emp_exc' = extract_current_employments(orcid_data, today).exc
    /\ emp_pc' = "raised"
    /\ UNCHANGED <<today, orcid_data, current_employments>>
    /\ UNCHANGED empRest

NextEmployment == ExtractReturns \/ ExtractRaises

SpecEmployment == InitEmployment /\ [][NextEmployment]_vars

(***************************************************************************)
(* Properties of extract_current_employments.                              *)
(***************************************************************************)
HasNoEndDate(group) == Len(group) > 0 /\ group[1].end.k \in {"absent", "null"}

HasYear(group) ==
    Len(group) > 0 /\ group[1].end.k = "obj" /\ group[1].end.year.k = "val"

LacksYear(group) ==
    Len(group) > 0 /\ group[1].end.k = "obj" /\ group[1].end.year.k # "val"

\* The date the claim builds: (year, month or 1, day or 1).
BuiltDate(group) ==
    <<ParseInt(group[1].end.year.v), PartOrOne(group[1].end.month),
      PartOrOne(group[1].end.day)>>

AllTriples(groups) == [i \in 1..Len(groups) |-> EmploymentTriple(groups[i][1])]

\* The groups the stated policy keeps, in payload order.
RECURSIVE KeptByPolicy(_, _)
KeptByPolicy(groups, now) ==
    IF Len(groups) = 0 THEN <<>>
    ELSE LET g == groups[Len(groups)]
             rest == KeptByPolicy(SubSeq(groups, 1, Len(groups) - 1), now)
         IN  IF HasNoEndDate(g) \/ (HasYear(g) /\ DateAfter(BuiltDate(g), now))
             THEN Append(rest, EmploymentTriple(g[1]))
             ELSE rest

\* C1: every affiliation group whose first summary has no end-date (null or
\* absent) has its (role, department, organization) triple in the output,
\* whatever today is.  Stated for payloads in which every group is such a
\* group: the call returns and the output is the list of all their triples.
C1_NoEndDateIncluded ==
    (emp_pc \in {"done", "raised"} /\ \A i \in 1..Len(orcid_data) : HasNoEndDate(orcid_data[i]))
        => (emp_pc = "done" /\ current_employments = AllTriples(orcid_data))

\* C2: a summary whose end-date carries a year is included if and only if
\* the date (year, month or 1, day or 1) is strictly after today; summaries
\* with a null end-date are included; the output keeps the payload's order.
C2_IncludedIffStrictlyAfterToday ==
    emp_pc = "done" => current_employments = KeptByPolicy(orcid_data, today)

\* C2 witness: today is 2024-06-15; an end-date of 2024 without month and day
\* and an end-date equal to today are both excluded, 2024-06-16 is included.
C2_Witness ==
    /\ emp_pc = "done"
    /\ today = <<2024, 6, 15>>
    /\ Len(orcid_data) = 2
    /\ orcid_data[1][1].end \in { EndObj(PartVal(Y2024), PartAbsent, PartAbsent),
                                  EndObj(PartVal(Y2024), PartVal(M06), PartVal(D15)) }
    /\ orcid_data[2][1].end = EndObj(PartVal(Y2024), PartVal(M06), PartVal(D16))
    /\ current_employments = <<EmploymentTriple(orcid_data[2][1])>>

\* C3: an end-date object whose year value is missing does not make the call
\* fail: the year 2050 (month 1, day 1 when missing) stands in, so the entry
\* is included for any today before 2050.  Stated for payloads in which every
\* group has such an end-date.
C3_MissingYearUsesSentinel ==
    (/\ emp_pc \in {"done", "raised"}
     /\ \A i \in 1..Len(orcid_data) : LacksYear(orcid_data[i]))
        => /\ emp_pc = "done"
           /\ today[1] < SentinelYear => current_employments = AllTriples(orcid_data)

(***************************************************************************)
(* search_wikidata_id: the lookup of a Wikidata QID with backoff on 429.   *)
(***************************************************************************)
InitialBackoff == 1
MaxBackoff == 60

Min(a, b) == IF a < b THEN a ELSE b

\* backoff = min(backoff * 2, 60)
NextBackoffUncapped(b) == b * 2

NextBackoff(b) == Min(b * 2, MaxBackoff)

\* while retries <= max_retries
MayRequestStrict(r, budget) == r < budget

MayRequest(r, budget) == r <= budget

\* The QID of the first search hit for a name.
FirstHitId(name) == IF name = "Uni A" THEN "Q1" ELSE "Q2"

SearchStrings == {"Uni A", "Uni B"}

InitWiki ==
    /\ EmpIdle
    /\ BaseIdle
    /\ LaterIdle
    /\ search_string \in SearchStrings
    /\ max_retries \in 0..MaxRetries
    /\ retries = 0
    /\ backoff = InitialBackoff
    /\ requests = <<>>
    /\ sleeps = <<>>
    /\ wd_pc = "loop"
    /\ wd_result = ""

\* Lines 49-54: a 429 response: sleep, count the retry, double the delay.
Request429 ==
    /\ wd_pc = "loop"
    /\ MayRequest(retries, max_retries)
    /\ requests' = Append(requests, "429")
    /\ sleeps' = Append(sleeps, backoff)
    /\ retries' = retries + 1
    /\ backoff' = NextBackoff(backoff)
    /\ UNCHANGED <<search_string, max_retries, wd_pc, wd_result>>
    /\ UNCHANGED wikiRest

\* Lines 56-60: a 200 response with a non-empty "search" list.
RequestHit ==
    /\ wd_pc = "loop"
    /\ MayRequest(retries, max_retries)
    /\ requests' = Append(requests, "200 hit")
    /\ wd_result' = FirstHitId(search_string)
    /\ wd_pc' = "returned"
    /\ UNCHANGED <<search_string, max_retries, retries, backoff, sleeps>>
    /\ UNCHANGED wikiRest

\* Lines 61-63: a 200 response without hits; line 56 and 68-70: another error
\* status (raise_for_status); lines 57, 65-67: a body that is not JSON.
RequestEchoes ==
    /\ wd_pc = "loop"
    /\ MayRequest(retries, max_retries)
    /\ \E r \in {"200 empty", "500", "200 undecodable"} :
          requests' = Append(requests, r)
    /\ wd_result' = search_string
    /\ wd_pc' = "returned"
    /\ UNCHANGED <<search_string, max_retries, retries, backoff, sleeps>>
    /\ UNCHANGED wikiRest

\* Lines 41-46, 68-70: requests.get itself raises (connection error, timeout).
RequestFails ==
    /\ wd_pc = "loop"
    /\ MayRequest(retries, max_retries)
    /\ requests' = Append(requests, "no response")
    /\ wd_result' = search_string
    /\ wd_pc' = "returned"
    /\ UNCHANGED <<search_string, max_retries, retries, backoff, sleeps>>
    /\ UNCHANGED wikiRest

\* Lines 72-73: the loop condition fails: the budget is used up.
GiveUp ==
    /\ wd_pc = "loop"
    /\ ~MayRequest(retries, max_retries)
    /\ wd_result' = search_string
    /\ wd_pc' = "returned"
    /\ UNCHANGED <<search_string, max_retries, retries, backoff, requests, sleeps>>
    /\ UNCHANGED wikiRest

NextWiki == Request429 \/ RequestHit \/ RequestEchoes \/ RequestFails \/ GiveUp

SpecWiki == InitWiki /\ [][NextWiki]_vars

(***************************************************************************)
(* Properties of search_wikidata_id.                                       *)
(***************************************************************************)
RECURSIVE Pow2(_)
Pow2(n) == IF n = 0 THEN 1 ELSE 2 * Pow2(n - 1)

Only429 == \A i \in 1..Len(requests) : requests[i] = "429"

\* C10: given only 429 responses the call ends: it issues at most
\* max_retries + 1 requests, the k-th sleep lasts min(2^(k-1), 60) seconds,
\* one sleep follows each 429, and once the budget is used up the only step
\* left is the return of the unchanged search string; nothing is raised.
C10_Only429GivesUp ==
    Only429 =>
        /\ Len(requests) <= max_retries + 1
        /\ Len(sleeps) = Len(requests)
        /\ \A k \in 1..Len(sleeps) : sleeps[k] = Min(Pow2(k - 1), MaxBackoff)
        /\ wd_pc \in {"idle", "loop", "returned"}
        /\ (wd_pc = "loop" /\ Len(requests) = max_retries + 1)
              => (ENABLED GiveUp /\ ~ENABLED Request429)
        /\ wd_pc = "returned"
              => (wd_result = search_string /\ Len(requests) = max_retries + 1)

\* C10 witness: a budget of 7 used up by eight 429 responses, the last two
\* sleeps at the 60 second cap, and the search string returned.
C10_Witness ==
    /\ wd_pc = "returned"
    /\ Only429
    /\ max_retries = 7
    /\ Len(requests) = 8
    /\ sleeps = <<1, 2, 4, 8, 16, 32, 60, 60>>
    /\ wd_result = search_string

\* C11: a 429 response followed by a 200 response with hits: the call
\* returns the identifier of the first hit after exactly two requests and
\* exactly one sleep, of the initial delay, between them.  After the one 429
\* a budget of at least one retry lets the second request go out.
C11_RetryThenHit ==
    /\ (Len(requests) >= 1 /\ requests[1] = "429")
          => /\ Len(sleeps) >= 1
             /\ sleeps[1] = InitialBackoff
    /\ (requests = <<"429">> /\ max_retries >= 1)
          => /\ wd_pc = "loop"
             /\ sleeps = <<InitialBackoff>>
             /\ ENABLED RequestHit
    /\ requests = <<"429", "200 hit">>
          => /\ wd_pc = "returned"
             /\ wd_result = (IF search_string = "Uni A" THEN "Q1" ELSE "Q2")
             /\ wd_result # search_string
             /\ sleeps = <<InitialBackoff>>
             /\ retries = 1

\* C11 witness: with a budget of one retry, "Uni A" met a 429 and then a 200
\* with hits: Q1 is returned after a single sleep of one second.
C11_Witness ==
    /\ wd_pc = "returned"
    /\ max_retries = 1
    /\ search_string = "Uni A"
    /\ requests = <<"429", "200 hit">>
    /\ sleeps = <<1>>
    /\ wd_result = "Q1"

(***************************************************************************)
(* Python str operations.  A string's characters are given by Text; the    *)
(* operations are computed on the characters and named back by Str.        *)
(* "BOM" is the one character U+FEFF.                                      *)
(***************************************************************************)
Text ==
    [ s \in { "", "orcid", "ORCID", "Orcid", "name", "0001", "0002", "0009",
              " 0002 ", "<BOM>0001", "x", "a, b", "c,d", "a", " b", "b", "c", "d",
              "nlp", "Nlp", "(ocr)", "ocr", "Ocr", "#tag", "tag", "Tag", "A", "B", "A, B" } |->
        CASE s = ""          -> <<>>
          [] s = "orcid"     -> <<"o", "r", "c", "i", "d">>
          [] s = "ORCID"     -> <<"O", "R", "C", "I", "D">>
          [] s = "Orcid"     -> <<"O", "r", "c", "i", "d">>
          [] s = "name"      -> <<"n", "a", "m", "e">>
          [] s = "0001"      -> <<"0", "0", "0", "1">>
          [] s = "0002"      -> <<"0", "0", "0", "2">>
          [] s = "0009"      -> <<"0", "0", "0", "9">>
          [] s = " 0002 "    -> <<" ", "0", "0", "0", "2", " ">>
          [] s = "<BOM>0001" -> <<"BOM", "0", "0", "0", "1">>
          [] s = "x"         -> <<"x">>
          [] s = "a, b"      -> <<"a", ",", " ", "b">>
          [] s = "c,d"       -> <<"c", ",", "d">>
          [] s = "a"         -> <<"a">>
          [] s = " b"        -> <<" ", "b">>
          [] s = "b"         -> <<"b">>
          [] s = "c"         -> <<"c">>
          [] s = "d"         -> <<"d">>
          [] s = "nlp"       -> <<"n", "l", "p">>
          [] s = "Nlp"       -> <<"N", "l", "p">>
          [] s = "(ocr)"     -> <<"(", "o", "c", "r", ")">>
          [] s = "ocr"       -> <<"o", "c", "r">>
          [] s = "Ocr"       -> <<"O", "c", "r">>
          [] s = "#tag"      -> <<"#", "t", "a", "g">>
          [] s = "tag"       -> <<"t", "a", "g">>
          [] s = "Tag"       -> <<"T", "a", "g">>
          [] s = "A"         -> <<"A">>
          [] s = "B"         -> <<"B">>
          [] s = "A, B"      -> <<"A", ",", " ", "B">> ]

Chars(s) == Text[s]
Str(cs) == CHOOSE s \in DOMAIN Text : Text[s] = cs

LowerChar(c) ==
    CASE c = "O" -> "o" [] c = "R" -> "r" [] c = "C" -> "c"
      [] c = "I" -> "i" [] c = "D" -> "d" [] OTHER -> c

\* str.lower()
Lower(s) == Str([i \in 1..Len(Chars(s)) |-> LowerChar(Chars(s)[i])])

RECURSIVE DropLeading(_, _)
DropLeading(cs, drop) ==
    IF Len(cs) > 0 /\ cs[1] \in drop THEN DropLeading(Tail(cs), drop) ELSE cs

RECURSIVE DropTrailing(_, _)
DropTrailing(cs, drop) ==
    IF Len(cs) > 0 /\ cs[Len(cs)] \in drop
    THEN DropTrailing(SubSeq(cs, 1, Len(cs) - 1), drop)
    ELSE cs

Whitespace == {" "}

\* str.strip()
Strip(s) == Str(DropTrailing(DropLeading(Chars(s), Whitespace), Whitespace))

\* str.lstrip(BOM)
LStripBom(s) == Str(DropLeading(Chars(s), {"BOM"}))

LowerLetters == {"a", "b", "c", "d", "e", "g", "i", "l", "m", "n", "o", "p", "r", "t", "x"}
UpperLetters == {"A", "B", "C", "D", "I", "N", "O", "R", "T"}
Digits == {"0", "1", "2", "9"}

\* c.isalnum()
IsAlnum(c) == c \in LowerLetters \cup UpperLetters \cup Digits

UpperChar(c) ==
    CASE c = "a" -> "A" [] c = "b" -> "B" [] c = "n" -> "N"
      [] c = "o" -> "O" [] c = "t" -> "T" [] OTHER -> c

\* str.title(): a letter after a non-letter is put in upper case, every
\* other letter in lower case.
Title(s) ==
    LET cs == Chars(s)
        letter(c) == c \in LowerLetters \cup UpperLetters
    IN  Str([i \in 1..Len(cs) |->
                IF i = 1 \/ ~letter(cs[i - 1]) THEN UpperChar(cs[i])
                ELSE LowerChar(cs[i])])

\* keyword.replace("(", "").replace(")", "").replace("#", "")
DropBrackets(s) == Str(SelectSeq(Chars(s), LAMBDA c : c \notin {"(", ")", "#"}))

\* sep.join(strs)
RECURSIVE Join(_, _)
Join(strs, sep) ==
    IF Len(strs) = 0 THEN ""
    ELSE IF Len(strs) = 1 THEN strs[1]
    ELSE strs[1] \o sep \o Join(Tail(strs), sep)

\* "," in s
HasComma(s) == \E i \in 1..Len(Chars(s)) : Chars(s)[i] = ","

\* s.split(","): the pieces between the commas, as character sequences.
RECURSIVE SplitChars(_, _)
SplitChars(cs, piece) ==
    IF Len(cs) = 0 THEN <<piece>>
    ELSE IF cs[1] = "," THEN <<piece>> \o SplitChars(Tail(cs), <<>>)
    ELSE SplitChars(Tail(cs), Append(piece, cs[1]))

SplitComma(s) ==
    LET pieces == SplitChars(Chars(s), <<>>)
    IN  Then(pieces, [i \in 1..Len(pieces) |-> Str(pieces[i])])

(***************************************************************************)
(* Python values of a record's properties.  str and None are values; a     *)
(* list is a reference into the heap, so two dictionaries can hold the     *)
(* same list object.  Dictionaries are never shared by the code (every     *)
(* dictionary is a literal, a .copy() or freshly decoded), so a dictionary *)
(* is the function from its keys to its values.                            *)
(***************************************************************************)
StrV(str) == [t |-> "str", s |-> str, r |-> 0]
NoneV == [t |-> "none", s |-> "", r |-> 0]
RefV(ref) == [t |-> "ref", s |-> "", r |-> ref]

\* d[k] = v
DictSet(d, k, v) == [x \in DOMAIN d \cup {k} |-> IF x = k THEN v ELSE d[x]]

\* d.get(k, default)
DictGet(d, k, default) == IF k \in DOMAIN d THEN d[k] ELSE default

\* A new list object holding items; the heap is the sequence of all objects.
Alloc(h, kind, items) == Append(h, [kind |-> kind, items |-> items])
NewRef(h) == Len(h) + 1

\* The value a property holds, with every list read through the heap:
\* what == compares and what a reader of the record sees.
RECURSIVE Deep(_, _)
Deep(v, h) ==
    IF v.t = "ref"
    THEN [t |-> h[v.r].kind, s |-> "",
          items |-> [i \in 1..Len(h[v.r].items) |-> Deep(h[v.r].items[i], h)]]
    ELSE [t |-> v.t, s |-> v.s, items |-> <<>>]

DeepDict(d, h) == [k \in DOMAIN d |-> Deep(d[k], h)]
DeepBase(b, h) == [o \in DOMAIN b |-> DeepDict(b[o], h)]

RECURSIVE SetToSeq(_)
SetToSeq(S) ==
    IF S = {} THEN <<>>
    ELSE LET x == CHOOSE y \in S : TRUE IN <<x>> \o SetToSeq(S \ {x})

(***************************************************************************)
(* json.dump / json.load on the values above: a list or tuple is written   *)
(* as an array, None as null; an array is read back as a new list.         *)
(***************************************************************************)
RECURSIVE ToJson(_, _)
ToJson(v, h) ==
    CASE v.t = "str"  -> [t |-> "string", s |-> v.s, items |-> <<>>]
      [] v.t = "none" -> [t |-> "null", s |-> "", items |-> <<>>]
      [] v.t = "ref"  -> [t |-> "array", s |-> "",
                          items |-> [i \in 1..Len(h[v.r].items) |->
                                        ToJson(h[v.r].items[i], h)]]

DumpDict(d, h) == [k \in DOMAIN d |-> ToJson(d[k], h)]

\* json.dump(self.raw_base, ...)
JsonDump(raw, h) == [o \in DOMAIN raw |-> DumpDict(raw[o], h)]

RECURSIVE FromJson(_, _)
RECURSIVE FromJsonItems(_, _, _, _)
FromJson(j, h) ==
    CASE j.t = "string" -> [v |-> StrV(j.s), h |-> h]
      [] j.t = "null"   -> [v |-> NoneV, h |-> h]
      [] j.t = "array"  ->
            LET r == FromJsonItems(j.items, 1, <<>>, h)
            IN  [v |-> RefV(NewRef(r.h)), h |-> Alloc(r.h, "list", r.vals)]

FromJsonItems(items, i, vals, h) ==
    IF i > Len(items) THEN [vals |-> vals, h |-> h]
    ELSE LET r == FromJson(items[i], h)
             vals1 == Append(vals, r.v)
         IN  Then(<<r, vals1>>, FromJsonItems(items, i + 1, vals1, r.h))

\* One decoded dictionary: its keys in turn, every array a new list.
RECURSIVE LoadDict(_, _, _, _)
LoadDict(jd, keys, d, h) ==
    IF Len(keys) = 0 THEN [d |-> d, h |-> h]
    ELSE LET r == FromJson(jd[keys[1]], h)
             d1 == DictSet(d, keys[1], r.v)
         IN  Then(<<r, d1>>, LoadDict(jd, Tail(keys), d1, r.h))

EmptyDict == [k \in {} |-> NoneV]

(***************************************************************************)
(* Expert and ExpertBase.                                                  *)
(***************************************************************************)
FVorname == "Vorname"
FNachname == "Nachname"
FEmployment == "Derzeitige Beschaeftigung"
FKeywords == "Forschungsinteressen"
FMail == "E-Mail"
FTadirah == "TaDiRAH-Zuordnung"

\* Expert.get_properties: self.properties.copy(), a copy of the dictionary
\* whose values are the same objects.
get_properties(properties) == [k \in DOMAIN properties |-> properties[k]]

\* Expert.extend_properties: self.properties[property] = value
extend_properties_concat(properties, property, value) ==
    DictSet(properties, property,
            IF property \in DOMAIN properties /\ properties[property].t = "str"
            THEN StrV(properties[property].s \o value.s)
            ELSE value)

extend_properties(properties, property, value) == DictSet(properties, property, value)

\* The kind of object line 104 and 131 append for one employment: a list.
TripleKindTuple == "tuple"

TripleKind == "list"

\* The list objects of one employment list: one object per triple, then the
\* list of them.  Returns the heap and the reference of the outer list.
RECURSIVE AllocTriples(_, _, _, _)
AllocTriples(h, triples, i, refs) ==
    IF i > Len(triples)
    THEN [h |-> Alloc(h, "list", refs), ref |-> NewRef(h)]
    ELSE LET h1 == Alloc(h, TripleKind, [j \in 1..3 |-> StrV(triples[i][j])])
             refs1 == Append(refs, RefV(NewRef(h)))
         IN  Then(<<h1, refs1>>, AllocTriples(h1, triples, i + 1, refs1))

AllocStrings(h, strs) ==
    [h |-> Alloc(h, "list", [i \in 1..Len(strs) |-> StrV(strs[i])]), ref |-> NewRef(h)]

(***************************************************************************)
(* The registry.  A fetch of one sub-resource ends in one of               *)
(*   ok       status 200 and a JSON body                                   *)
(*   status   another status code                                          *)
(*   conn     requests.get raises (connection error)                       *)
(*   badjson  status 200 and a body response.json() cannot decode          *)
(***************************************************************************)
\* fetch_orcid_data: the dictionary, None, or the exception that escapes
\* (requests.get and response.json() are not guarded).
fetch_orcid_data(outcome) ==
    CASE outcome = "ok"      -> [st |-> "data", exc |-> ""]
      [] outcome = "status"  -> [st |-> "none", exc |-> ""]
      [] outcome = "conn"    -> [st |-> "raised", exc |-> "ConnectionError"]
      [] outcome = "badjson" -> [st |-> "raised", exc |-> "JSONDecodeError"]

\* extract_names
extract_names(person) ==
    [given |-> GetOr(person.given, ""), family |-> GetOr(person.family, "")]

\* extract_mail: the first e-mail entry's address, "" without entries
extract_mail(person) ==
    IF Len(person.emails) > 0 THEN person.emails[1] ELSE StrV("")

\* extract_keywords
extract_keywords(person) == person.keywords

PersonData(o) ==
    IF o = "0001"
    THEN [given |-> Some("Ada"), family |-> Some("Lovelace"),
          keywords |-> <<"nlp", "(ocr)">>, emails |-> <<StrV("ada@example.org")>>]
    ELSE [given |-> Absent, family |-> Some("Turing"),
          keywords |-> <<>>, emails |-> <<NoneV, StrV("alan@example.org")>>]

Summary(end, label) ==
    [end |-> end, role |-> label.role, dept |-> label.dept, org |-> label.org]

LabelA == [role |-> Some("Professor"), dept |-> Some("Informatik"), org |-> Some("Uni A")]
LabelB == [role |-> Absent, dept |-> Absent, org |-> Some("Uni B")]

ActivitiesData(o) ==
    IF o = "0001"
    THEN << <<Summary(EndNull, LabelA)>> >>
    ELSE << <<Summary(EndObj(PartVal(Y2023), PartAbsent, PartAbsent), LabelA)>>,
            <<Summary(EndObj(PartVal(Y2025), PartVal(M06), PartAbsent), LabelB)>>,
            <<Summary(EndNull, LabelA)>> >>

Today == <<2024, 6, 15>>

(***************************************************************************)
(* The identifier CSV: a data row is its second cell and its third cell    *)
(* (absent when the row has two cells only).                               *)
(***************************************************************************)
\* read_orcids_from_csv: row[1].strip() of every data row
RECURSIVE read_orcids_from_csv(_)
read_orcids_from_csv(rows) ==
    IF Len(rows) = 0 THEN <<>>
    ELSE <<Strip(rows[1].orcid)>> \o read_orcids_from_csv(Tail(rows))

\* create_tadirah_map, lines 29-33: the tag lists of the rows whose third
\* cell holds a comma, in row order.
RECURSIVE TagLists(_)
TagLists(rows) ==
    IF Len(rows) = 0 THEN <<>>
    ELSE LET cell == rows[1].tags.s
             parts == SplitComma(cell)
             tags == [i \in 1..Len(parts) |-> Strip(parts[i])]
         IN  Then(parts, (IF HasComma(cell) THEN <<tags>> ELSE <<>>) \o TagLists(Tail(rows)))

\* dict(zip(keys, vals)): pairs up to the shorter length, the last pair of a
\* key wins.
ZipDict(keys, vals) ==
    LET n == Min(Len(keys), Len(vals))
    IN  [k \in {keys[i] : i \in 1..n} |->
            vals[CHOOSE i \in 1..n : keys[i] = k /\ \A j \in (i + 1)..n : keys[j] # k]]

\* create_tadirah_map: row[2] raises on a row of two cells.
create_tadirah_map(rows) ==
    IF \E i \in 1..Len(rows) : ~rows[i].tags.has
    THEN [st |-> "raised", exc |-> "IndexError", map |-> <<>>]
    ELSE [st |-> "ok", exc |-> "",
          map |-> ZipDict(read_orcids_from_csv(rows), TagLists(rows))]

(***************************************************************************)
(* populate_from_csv, lines 82-107: one pass of the loop for one orcid.    *)
(* eb is [base, raw_base, heap].  The result says whether the record was   *)
(* stored, skipped, or an exception left the loop, and which sub-resources *)
(* were fetched.                                                           *)
(***************************************************************************)
StoreExpert(eb, o, tmap) ==
    LET person == PersonData(o)
        names == extract_names(person)
        kw == AllocStrings(eb.heap, extract_keywords(person))
        triples == extract_current_employments(ActivitiesData(o), Today).out
        emp == AllocTriples(kw.h, triples, 1, <<>>)
        tad == AllocStrings(emp.h, tmap[o])
        data == [k \in {FVorname, FNachname, FEmployment, FKeywords, FMail, FTadirah} |->
                    CASE k = FVorname    -> StrV(names.given)
                      [] k = FNachname   -> StrV(names.family)
                      [] k = FEmployment -> RefV(emp.ref)
                      [] k = FKeywords   -> RefV(kw.ref)
                      [] k = FMail       -> extract_mail(person)
                      [] k = FTadirah    -> RefV(tad.ref)]
    IN  Then(<<kw, triples, emp, tad, data>>,
             [base |-> DictSet(eb.base, o, data),
              raw_base |-> DictSet(eb.raw_base, o, get_properties(data)),
              heap |-> tad.h])

PopulateOne(eb, o, reg, tmap) ==
    LET p == fetch_orcid_data(reg[o].person)
        a == fetch_orcid_data(reg[o].activities)
        e == extract_current_employments(ActivitiesData(o), Today)
    IN  IF p.st = "raised"
        THEN [eb |-> eb, st |-> "raised", exc |-> p.exc, fetched |-> <<"person">>]
        ELSE IF a.st = "raised"
        THEN [eb |-> eb, st |-> "raised", exc |-> a.exc,
              fetched |-> <<"person", "activities">>]
        ELSE IF p.st = "none" \/ a.st = "none"
        THEN [eb |-> eb, st |-> "skipped", exc |-> "",
              fetched |-> <<"person", "activities">>]
        ELSE IF e.st = "raised"
        THEN [eb |-> eb, st |-> "raised", exc |-> e.exc,
              fetched |-> <<"person", "activities">>]
        ELSE IF o \notin DOMAIN tmap
        THEN [eb |-> eb, st |-> "raised", exc |-> "KeyError",
              fetched |-> <<"person", "activities">>]
        ELSE [eb |-> StoreExpert(eb, o, tmap), st |-> "stored", exc |-> "",
              fetched |-> <<"person", "activities">>]

EmptyBase == [base |-> EmptyDict, raw_base |-> EmptyDict, heap |-> <<>>]

(***************************************************************************)
(* deserialize_expertbase, lines 138-151: raw_base is the decoded store,   *)
(* and every entry gives a live record of five properties.                 *)
(***************************************************************************)
RECURSIVE LoadRaw(_, _, _, _)
LoadRaw(doc, ids, raw, h) ==
    IF Len(ids) = 0 THEN [raw |-> raw, h |-> h]
    ELSE LET r == LoadDict(doc[ids[1]], SetToSeq(DOMAIN doc[ids[1]]), EmptyDict, h)
             raw1 == DictSet(raw, ids[1], r.d)
         IN  Then(<<r, raw1>>, LoadRaw(doc, Tail(ids), raw1, r.h))

\* expert.get(key, []): the entry's list, or a new empty list.
GetOrNewList(entry, key, h) ==
    IF key \in DOMAIN entry THEN [v |-> entry[key], h |-> h]
    ELSE [v |-> RefV(NewRef(h)), h |-> Alloc(h, "list", <<>>)]

ExpertFromEntry(entry, h) ==
    LET emp == GetOrNewList(entry, FEmployment, h)
        kw == GetOrNewList(entry, FKeywords, emp.h)
    IN  [data |-> [k \in {FVorname, FNachname, FEmployment, FKeywords, FMail} |->
                      CASE k = FVorname    -> DictGet(entry, FVorname, StrV(""))
                        [] k = FNachname   -> DictGet(entry, FNachname, StrV(""))
                        [] k = FEmployment -> emp.v
                        [] k = FKeywords   -> kw.v
                        [] k = FMail       -> DictGet(entry, FMail, StrV(""))],
         h |-> kw.h]

RECURSIVE LoadExperts(_, _, _, _)
LoadExperts(raw, ids, b, h) ==
    IF Len(ids) = 0 THEN [base |-> b, h |-> h]
    ELSE LET e == ExpertFromEntry(raw[ids[1]], h)
             b1 == DictSet(b, ids[1], e.data)
         IN  Then(<<e, b1>>, LoadExperts(raw, Tail(ids), b1, e.h))

deserialize_expertbase(doc, h) ==
    LET raw == LoadRaw(doc, SetToSeq(DOMAIN doc), EmptyDict, h)
        live == LoadExperts(raw.raw, SetToSeq(DOMAIN doc), EmptyDict, raw.h)
    IN  [base |-> live.base, raw_base |-> raw.raw, heap |-> live.h]

(***************************************************************************)
(* SpecPopulate: ExpertBase(filename, from_csv=True), then the store is    *)
(* written by serialize_expertbase and read by a second                    *)
(* ExpertBase(filename, from_csv=False).                                   *)
(***************************************************************************)
Orcids == {"0001", "0002"}

IdRows ==
    { [orcid |-> o, tags |-> t] :
        o \in {"0001", " 0002 "},
        t \in {Absent, Some("x"), Some("a, b"), Some("c,d")} }

\* How the two fetches of one orcid end: at most one of them fails.
FetchOutcomes ==
    { [person |-> "ok", activities |-> "ok"] }
    \cup { [person |-> k, activities |-> "ok"] : k \in {"status", "conn", "badjson"} }
    \cup { [person |-> "ok", activities |-> k] : k \in {"status", "conn", "badjson"} }

InitPopulate ==
    /\ EmpIdle
    /\ WikiIdle
    /\ MergeIdle
    /\ AliasIdle
    /\ LaterIdle
    /\ base = EmptyDict
    /\ raw_base = EmptyDict
    /\ heap = <<>>
    /\ id_csv \in SeqsUpTo(IdRows, MaxIds)
    /\ registry \in [Orcids -> FetchOutcomes]
    /\ orcids = <<>>
    /\ tadirah_map = <<>>
    /\ pop_i = 0
    /\ pop_pc = "call"
    /\ pop_exc = ""
    /\ fetched = <<>>
    /\ store = [written |-> FALSE, doc |-> <<>>]
    /\ reloaded = [done |-> FALSE, base |-> <<>>, raw_base |-> <<>>]

\* Lines 76-77: both readers of the identifier CSV.
PopulateRead ==
    /\ pop_pc = "call"
    /\ orcids' = read_orcids_from_csv(id_csv)
    /\ IF create_tadirah_map(id_csv).st = "raised"
       THEN /\ pop_pc' = "raised"
            /\ pop_exc' = create_tadirah_map(id_csv).exc
            /\ UNCHANGED <<tadirah_map, pop_i>>
       ELSE /\ pop_pc' = "loop"
            /\ tadirah_map' = create_tadirah_map(id_csv).map
            /\ pop_i' = 1
            /\ UNCHANGED pop_exc
    /\ UNCHANGED <<id_csv, registry, fetched>>
    /\ UNCHANGED <<ebVars, storeVars, popRest>>

\* Lines 81-107: one pass of the loop.
PopulateNext ==
    /\ pop_pc = "loop"
    /\ pop_i <= Len(orcids)
    /\ LET r == PopulateOne([base |-> base, raw_base |-> raw_base, heap |-> heap],
                            orcids[pop_i], registry, tadirah_map)
       IN  /\ base' = r.eb.base
           /\ raw_base' = r.eb.raw_base
           /\ heap' = r.eb.heap
           /\ fetched' = fetched \o [k \in 1..Len(r.fetched) |-> <<pop_i, r.fetched[k]>>]
           /\ IF r.st = "raised"
              THEN pop_pc' = "raised" /\ pop_exc' = r.exc /\ UNCHANGED pop_i
              ELSE pop_i' = pop_i + 1 /\ UNCHANGED <<pop_pc, pop_exc>>
    /\ UNCHANGED <<id_csv, registry, orcids, tadirah_map>>
    /\ UNCHANGED <<storeVars, popRest>>

\* Line 109: the loop is through.
PopulateEnd ==
    /\ pop_pc = "loop"
    /\ pop_i > Len(orcids)
    /\ pop_pc' = "done"
    /\ UNCHANGED <<id_csv, registry, orcids, tadirah_map, pop_i, pop_exc, fetched>>
    /\ UNCHANGED <<ebVars, storeVars, popRest>>

\* serialize_expertbase: json.dump(self.raw_base, ...)
Serialize ==
    /\ pop_pc = "done"
    /\ ~store.written
    /\ store' = [written |-> TRUE, doc |-> JsonDump(raw_base, heap)]
    /\ UNCHANGED reloaded
    /\ UNCHANGED <<ebVars, popVars, popRest>>

\* ExpertBase(path, from_csv=False): deserialize_expertbase
Deserialize ==
    /\ store.written
    /\ ~reloaded.done
    /\ LET r == deserialize_expertbase(store.doc, heap)
       IN  /\ reloaded' = [done |-> TRUE, base |-> r.base, raw_base |-> r.raw_base]
           /\ heap' = r.heap
    /\ UNCHANGED <<base, raw_base, store>>
    /\ UNCHANGED <<popVars, popRest>>

NextPopulate == PopulateRead \/ PopulateNext \/ PopulateEnd \/ Serialize \/ Deserialize

SpecPopulate == InitPopulate /\ [][NextPopulate]_vars

(***************************************************************************)
(* Properties of populate_from_csv and of the store.                       *)
(***************************************************************************)
FetchFails(o) == registry[o].person # "ok" \/ registry[o].activities # "ok"

AllRowsTagged == \A i \in 1..Len(id_csv) : id_csv[i].tags.has /\ HasComma(id_csv[i].tags.s)

WasFetched(i) == \E k \in 1..Len(fetched) : fetched[k] = <<i, "person">>

\* C9: the batch never aborts on a single bad identifier: when a fetch of an
\* identifier fails (another status, a connection error, an undecodable
\* body), no record is stored for it, every later identifier is still
\* fetched, the records of earlier identifiers are kept, and the run ends
\* normally.  Stated for identifier CSVs in which every row has a tag list.
C9_FailedFetchIsSkipped ==
    (pop_pc \in {"done", "raised"} /\ AllRowsTagged)
        => /\ pop_pc = "done"
           /\ \A i \in 1..Len(orcids) :
                 FetchFails(orcids[i])
                    => /\ orcids[i] \notin DOMAIN base
                       /\ \A j \in (i + 1)..Len(orcids) : WasFetched(j)
                       /\ \A j \in 1..(i - 1) :
                             ~FetchFails(orcids[j]) => orcids[j] \in DOMAIN base

\* The tags column 3 of data row i holds, each stripped.
RowTags(i) ==
    LET parts == SplitComma(id_csv[i].tags.s)
    IN  [k \in 1..Len(parts) |-> Strip(parts[k])]

\* The topic tags the record of o carries.
RecordTags(o) ==
    LET l == Deep(base[o][FTadirah], heap).items
    IN  [k \in 1..Len(l) |-> l[k].s]

\* The record of o carries the tags of data row i: the list of column 3, or,
\* when column 3 holds no list, nothing or the one cell.
CarriesTagsOf(o, i) ==
    IF id_csv[i].tags.has /\ HasComma(id_csv[i].tags.s)
    THEN RecordTags(o) = RowTags(i)
    ELSE RecordTags(o) = <<>>
         \/ (id_csv[i].tags.has /\ RecordTags(o) = <<Strip(id_csv[i].tags.s)>>)

\* C13: whatever mix of rows with and without a tag list the identifier CSV
\* holds, a row without a tag list stops no identifier from being processed
\* (no exception leaves populate_from_csv, and at its end every row's
\* identifier has a record), and every record carries the tags of a row of
\* its own identifier.  Stated for registries in which every fetch succeeds.
C13_TagsOfOwnRow ==
    (pop_pc # "idle" /\ \A o \in Orcids : ~FetchFails(o))
        => /\ pop_pc # "raised"
           /\ \A o \in DOMAIN base :
                 \E i \in 1..Len(id_csv) :
                    Strip(id_csv[i].orcid) = o /\ CarriesTagsOf(o, i)
           /\ pop_pc = "done"
                 => \A i \in 1..Len(id_csv) : Strip(id_csv[i].orcid) \in DOMAIN base

RoundTripFields == {FVorname, FNachname, FEmployment, FKeywords, FMail}

\* C7: every record populate_from_csv created comes back from the store
\* under the same identifier with the same given name, family name, current
\* employments, research interests and e-mail (the reloaded live record has
\* these five properties only), and the reloaded raw_base equals the
\* raw_base that was written.
C7_RoundTrip ==
    reloaded.done =>
        /\ DOMAIN reloaded.base = DOMAIN base
        /\ \A o \in DOMAIN base :
              /\ DOMAIN reloaded.base[o] = RoundTripFields
              /\ \A f \in RoundTripFields :
                    Deep(reloaded.base[o][f], heap) = Deep(base[o][f], heap)
        /\ DeepBase(reloaded.raw_base, heap) = DeepBase(raw_base, heap)

\* C7 witness: two records were created, written and reloaded; one has an
\* e-mail of None and two current employments.
C7_Witness ==
    /\ reloaded.done
    /\ DOMAIN base = {"0001", "0002"}
    /\ base["0002"][FMail] = NoneV
    /\ Len(Deep(reloaded.base["0002"][FEmployment], heap).items) = 2
    /\ Deep(reloaded.base["0001"][FEmployment], heap).items[1].items[3].s = "Uni A"

(***************************************************************************)
(* add_properties_from_csv.                                                *)
(***************************************************************************)
\* Lines 242-249: the header has two cells at least and the first is "orcid".
HeaderValidLengthOnly(header) == Len(header) >= 2

HeaderValid(header) == Len(header) >= 2 /\ Lower(header[1]) = "orcid"

\* Line 253: row[0].lstrip(BOM).strip()
RowId(row) == Strip(LStripBom(row[1]))

\* Line 259: if not row[i]: continue
CellSkippedNever(cell) == FALSE

CellSkipped(cell) == cell = ""

\* Lines 257-262 from header cell i on: live is the Expert's properties, raw
\* the entry of raw_base.  row[i] raises on a row shorter than the header.
RECURSIVE ApplyCells(_, _, _, _, _)
ApplyCells(live, raw, header, row, i) ==
    IF i > Len(header) THEN [live |-> live, raw |-> raw, exc |-> ""]
    ELSE IF i > Len(row) THEN [live |-> live, raw |-> raw, exc |-> "IndexError"]
    ELSE IF CellSkipped(row[i]) THEN ApplyCells(live, raw, header, row, i + 1)
    ELSE ApplyCells(extend_properties(live, header[i], StrV(row[i])),
                    DictSet(raw, header[i], StrV(row[i])),
                    header, row, i + 1)

\* Lines 251-266 for one row.
ApplyRow(b, raw, header, row) ==
    IF Len(row) = 0 THEN [base |-> b, raw_base |-> raw, exc |-> "IndexError"]
    ELSE IF RowId(row) \notin DOMAIN b THEN [base |-> b, raw_base |-> raw, exc |-> ""]
    ELSE LET o == RowId(row)
             r == ApplyCells(b[o], raw[o], header, row, 2)
         IN  [base |-> DictSet(b, o, r.live), raw_base |-> DictSet(raw, o, r.raw),
              exc |-> r.exc]

AllOk == [o \in Orcids |-> [person |-> "ok", activities |-> "ok"]]

SampleTags == [o \in Orcids |-> IF o = "0001" THEN <<"a", "b">> ELSE <<"c", "d">>]

\* The ExpertBase populate_from_csv builds for the two sample identifiers.
SampleBase ==
    PopulateOne(PopulateOne(EmptyBase, "0001", AllOk, SampleTags).eb,
                "0002", AllOk, SampleTags).eb

FWebsite == "Webseite"

Headers ==
    { <<>>, <<"orcid">>, <<"name", FMail>>, <<"ORCID", FMail>>,
      <<"orcid", FWebsite, FMail>>, <<"Orcid", FWebsite, FWebsite>> }

RowIds == {"<BOM>0001", " 0002 ", "0009"}

OverrideRows ==
    { <<>> }
    \cup { <<o>> : o \in RowIds }
    \cup { <<o, c>> : o \in RowIds, c \in {"", "a", "b"} }
    \cup { <<o, c[1], c[2]>> :
              o \in RowIds, c \in { <<"a", "">>, <<"", "b">>, <<"a", "b">>, <<"b", "a">> } }

InitMerge ==
    /\ EmpIdle
    /\ WikiIdle
    /\ PopulateIdle
    /\ StoreIdle
    /\ AliasIdle
    /\ LaterIdle
    /\ base = SampleBase.base
    /\ raw_base = SampleBase.raw_base
    /\ heap = SampleBase.heap
    /\ \/ ov_csv = [exists |-> FALSE, header |-> <<>>, rows |-> <<>>]
       \/ \E h \in Headers, rs \in SeqsUpTo(OverrideRows, MaxRows) :
             ov_csv = [exists |-> TRUE, header |-> h, rows |-> rs]
    /\ merge_pc = "call"
    /\ merge_exc = ""
    /\ row_i = 0
    /\ pass = 1
    /\ applied = 0
    /\ prev_base = SampleBase.base
    /\ prev_raw = SampleBase.raw_base
    /\ start_base = SampleBase.base
    /\ start_raw = SampleBase.raw_base

\* Lines 233-240: the file cannot be opened.
MergeOpenFails ==
    /\ merge_pc = "call"
    /\ ~ov_csv.exists
    /\ merge_pc' = "raised"
    /\ merge_exc' = "IOError"
    /\ UNCHANGED <<ov_csv, row_i, pass, applied, prev_base, prev_raw, start_base, start_raw>>
    /\ UNCHANGED <<ebVars, mergeRest>>

\* Lines 233-249: the header is read and checked.
MergeOpen ==
    /\ merge_pc = "call"
    /\ ov_csv.exists
    /\ IF HeaderValid(ov_csv.header)
       THEN merge_pc' = "rows" /\ row_i' = 1
       ELSE merge_pc' = "returned" /\ UNCHANGED row_i
    /\ UNCHANGED <<ov_csv, merge_exc, pass, applied, prev_base, prev_raw,
                   start_base, start_raw>>
    /\ UNCHANGED <<ebVars, mergeRest>>

\* Lines 251-266: one data row.
MergeRow ==
    /\ merge_pc = "rows"
    /\ row_i <= Len(ov_csv.rows)
    /\ LET r == ApplyRow(base, raw_base, ov_csv.header, ov_csv.rows[row_i])
       IN  /\ base' = r.base
           /\ raw_base' = r.raw_base
           /\ IF r.exc = ""
              THEN row_i' = row_i + 1 /\ UNCHANGED <<merge_pc, merge_exc>>
              ELSE merge_pc' = "raised" /\ merge_exc' = r.exc /\ UNCHANGED row_i
    /\ applied' = row_i
    /\ prev_base' = base
    /\ prev_raw' = raw_base
    /\ UNCHANGED <<ov_csv, pass, start_base, start_raw, heap>>
    /\ UNCHANGED mergeRest

\* The rows are through: the call returns.
MergeEnd ==
    /\ merge_pc = "rows"
    /\ row_i > Len(ov_csv.rows)
    /\ merge_pc' = "returned"
    /\ UNCHANGED <<ov_csv, merge_exc, row_i, pass, applied, prev_base, prev_raw,
                   start_base, start_raw>>
    /\ UNCHANGED <<ebVars, mergeRest>>

\* The caller calls add_properties_from_csv with the same file once more.
MergeAgain ==
    /\ merge_pc \in {"returned", "raised"}
    /\ pass = 1
    /\ pass' = 2
    /\ merge_pc' = "call"
    /\ merge_exc' = ""
    /\ row_i' = 0
    /\ applied' = 0
    /\ prev_base' = base
    /\ prev_raw' = raw_base
    /\ start_base' = base
    /\ start_raw' = raw_base
    /\ UNCHANGED ov_csv
    /\ UNCHANGED <<ebVars, mergeRest>>

NextMerge == MergeOpenFails \/ MergeOpen \/ MergeRow \/ MergeEnd \/ MergeAgain

SpecMerge == InitMerge /\ [][NextMerge]_vars

(***************************************************************************)
(* Properties of add_properties_from_csv.                                  *)
(***************************************************************************)
\* The property f is the same in dictionaries d and e: absent in both, or
\* present in both with one value.
SameProperty(d, e, f) ==
    /\ f \in DOMAIN d <=> f \in DOMAIN e
    /\ f \in DOMAIN d => d[f] = e[f]

HoldsCell(d, f, cell) == f \in DOMAIN d /\ d[f] = StrV(cell)

\* The cells of a row that stand under the header cell f and are not empty.
FilledCells(header, row, f) ==
    { k \in 2..Min(Len(header), Len(row)) : header[k] = f /\ row[k] # "" }

\* C4: after a data row of a known identifier is applied, every header
\* field whose cell in the row is non-empty holds that cell, in the live
\* record and in raw_base, and every field whose cell is empty holds what it
\* held before the row, in both.  (When a header names one field twice, the
\* last non-empty cell under that name is the one held.)
C4_RowSetsFilledCellsOnly ==
    (/\ applied > 0
     /\ Len(ov_csv.rows[applied]) > 0
     /\ RowId(ov_csv.rows[applied]) \in DOMAIN prev_base)
        => LET header == ov_csv.header
               row == ov_csv.rows[applied]
               o == RowId(row)
           IN  \A j \in 2..Min(Len(header), Len(row)) :
                  LET f == header[j]
                      filled == FilledCells(header, row, f)
                  IN  /\ (row[j] # "" /\ \A k \in filled : k <= j)
                            => /\ HoldsCell(base[o], f, row[j])
                               /\ HoldsCell(raw_base[o], f, row[j])
                      /\ (row[j] = "" /\ filled = {})
                            => /\ SameProperty(base[o], prev_base[o], f)
                               /\ SameProperty(raw_base[o], prev_raw[o], f)

\* C4 witness: a row with an empty e-mail cell and a filled website cell was
\* applied to 0001: the e-mail from the registry is kept, the website set.
C4_Witness ==
    /\ applied > 0
    /\ ov_csv.header = <<"orcid", FWebsite, FMail>>
    /\ ov_csv.rows[applied] = <<"<BOM>0001", "a", "">>
    /\ base["0001"][FMail] = StrV("ada@example.org")
    /\ raw_base["0001"][FMail] = StrV("ada@example.org")
    /\ base["0001"][FWebsite] = StrV("a")
    /\ FWebsite \notin DOMAIN prev_base["0001"]

\* A header with fewer than two cells, or whose first cell is not "orcid" in
\* any letter case.
BadHeader(header) == Len(header) < 2 \/ Lower(header[1]) # "orcid"

C6_SecondMergeChangesNothing ==
    (pass = 2 /\ merge_pc \in {"returned", "raised"})
        => /\ base = start_base
           /\ raw_base = start_raw
           /\ heap = SampleBase.heap

\* C6 witness: two rows set the e-mail of 0001 to "a" and then to "b"; the
\* second call has gone through both rows again and returned.
C6_Witness ==
    /\ pass = 2
    /\ merge_pc = "returned"
    /\ ov_csv.header = <<"ORCID", FMail>>
    /\ ov_csv.rows = << <<"<BOM>0001", "a">>, <<"<BOM>0001", "b">> >>
    /\ base["0001"][FMail] = StrV("b")
    /\ raw_base["0001"][FMail] = StrV("b")
    /\ base # SampleBase.base

(***************************************************************************)
(* SpecExports: a caller of the export accessors of a populated ExpertBase *)
(* changes what the accessors gave it, and changes the entries of          *)
(* raw_base, which populate_from_csv took from get_properties.             *)
(***************************************************************************)
ListFields == {FEmployment, FKeywords, FTadirah}

\* list.append(x) on the list object ref
ListAppend(h, ref, x) ==
    [h EXCEPT ![ref] = [kind |-> h[ref].kind, items |-> Append(h[ref].items, x)]]

\* del container[key] / list.remove(key) on a container of the caller
Without(keys, key) == SelectSeq(keys, LAMBDA k : k # key)

InitExports ==
    /\ EmpIdle
    /\ WikiIdle
    /\ PopulateIdle
    /\ StoreIdle
    /\ MergeIdle
    /\ LaterIdle
    /\ base = SampleBase.base
    /\ raw_base = SampleBase.raw_base
    /\ heap = SampleBase.heap
    /\ snap = [taken |-> FALSE, orcid |-> "", props |-> <<>>]
    /\ held = [kind |-> "none", keys |-> <<>>]
    /\ edits = 0

\* Expert.get_properties of the record o
GetProperties ==
    /\ \E o \in DOMAIN base :
          snap' = [taken |-> TRUE, orcid |-> o, props |-> get_properties(base[o])]
    /\ UNCHANGED <<held, edits, ebVars, aliasRest>>

\* ExpertBase.get_base: self.base.copy()
GetBase ==
    /\ held' = [kind |-> "dict", keys |-> SetToSeq(DOMAIN base)]
    /\ UNCHANGED <<snap, edits, ebVars, aliasRest>>

\* ExpertBase.get_expert_as_list: list(self.base.values())
GetExpertAsList ==
    /\ held' = [kind |-> "experts", keys |-> SetToSeq(DOMAIN base)]
    /\ UNCHANGED <<snap, edits, ebVars, aliasRest>>

\* ExpertBase.get_orcids_as_list: list(self.base.keys())
GetOrcidsAsList ==
    /\ held' = [kind |-> "orcids", keys |-> SetToSeq(DOMAIN base)]
    /\ UNCHANGED <<snap, edits, ebVars, aliasRest>>

\* The caller sets a key of the dictionary it was given.
CallerSetsKey ==
    /\ snap.taken
    /\ edits < MaxEdits
    /\ \E f \in {FVorname, FKeywords, FWebsite} :
          snap' = [snap EXCEPT !.props = DictSet(snap.props, f, StrV("x"))]
    /\ edits' = edits + 1
    /\ UNCHANGED <<held, ebVars, aliasRest>>

\* The caller appends to a list it reaches through the dictionary it was given.
CallerAppendsToList ==
    /\ snap.taken
    /\ edits < MaxEdits
    /\ \E f \in ListFields :
          /\ f \in DOMAIN snap.props
          /\ snap.props[f].t = "ref"
          /\ heap' = ListAppend(heap, snap.props[f].r, StrV("x"))
    /\ edits' = edits + 1
    /\ UNCHANGED <<snap, held, base, raw_base, aliasRest>>

\* A key of an entry of raw_base is set.
MirrorSetsKey ==
    /\ edits < MaxEdits
    /\ \E o \in DOMAIN raw_base, f \in {FVorname, FWebsite} :
          raw_base' = DictSet(raw_base, o, DictSet(raw_base[o], f, StrV("x")))
    /\ edits' = edits + 1
    /\ UNCHANGED <<snap, held, base, heap, aliasRest>>

\* A list reached through an entry of raw_base is appended to.
MirrorAppendsToList ==
    /\ edits < MaxEdits
    /\ \E o \in DOMAIN raw_base, f \in ListFields :
          /\ raw_base[o][f].t = "ref"
          /\ heap' = ListAppend(heap, raw_base[o][f].r, StrV("x"))
    /\ edits' = edits + 1
    /\ UNCHANGED <<snap, held, base, raw_base, aliasRest>>

\* The caller removes an entry from the container it was given.
CallerDropsEntry ==
    /\ held.kind # "none"
    /\ edits < MaxEdits
    /\ \E k \in DOMAIN base :
          held' = [held EXCEPT !.keys = Without(held.keys, k)]
    /\ edits' = edits + 1
    /\ UNCHANGED <<snap, ebVars, aliasRest>>

NextExports ==
    \/ GetProperties \/ GetBase \/ GetExpertAsList \/ GetOrcidsAsList
    \/ CallerSetsKey \/ CallerAppendsToList \/ MirrorSetsKey \/ MirrorAppendsToList
    \/ CallerDropsEntry

SpecExports == InitExports /\ [][NextExports]_vars

\* C8: what an export accessor returns does not alias live state: whatever
\* the caller does to the dictionary get_properties returned (its nested
\* lists included), to an entry of raw_base, or to the containers get_base,
\* get_expert_as_list and get_orcids_as_list returned, every live record
\* keeps the properties it had and the ExpertBase keeps its set of records.
C8_ExportsDoNotAlias ==
    /\ DOMAIN base = DOMAIN SampleBase.base
    /\ DeepBase(base, heap) = DeepBase(SampleBase.base, SampleBase.heap)

(***************************************************************************)
(* SpecOrganisation: Expert.get_organisation, lines 182-197.  The record's *)
(* current employments are triples; search_wikidata_id returns, for each   *)
(* name, a QID or (no hit, error, budget used up) the name itself.         *)
(***************************************************************************)
OrgNames == {"Uni A", "Uni-A", "Uni B"}
Qids == {"Q1", "Q2"}

\* search_wikidata_id(organisation)
Resolve(res, name) == IF res[name] = "echo" THEN name ELSE res[name]

\* x in l
InList(x, l) == \E i \in 1..Len(l) : l[i] = x

\* Line 194: qid in qids.keys()
QidSeenNever(q, key) == FALSE

QidSeen(q, key) == \E i \in 1..Len(q) : q[i][1] = key

\* Line 195: qids[qid] = organisation; a key already there keeps its place.
PutQid(q, key, val) ==
    IF \E i \in 1..Len(q) : q[i][1] = key
    THEN [i \in 1..Len(q) |-> IF q[i][1] = key THEN <<key, val>> ELSE q[i]]
    ELSE Append(q, <<key, val>>)

\* list(qids.values())
DictValues(q) == [i \in 1..Len(q) |-> q[i][2]]

InitOrganisation ==
    /\ EmpIdle
    /\ WikiIdle
    /\ BaseIdle
    /\ FileIdle
    /\ ReadIdle
    /\ org_emps \in SeqsUpTo({<<"Professor", "Informatik", n>> : n \in OrgNames}, MaxEmps)
    /\ resolver \in [OrgNames -> Qids \cup {"echo"}]
    /\ organisations = <<>>
    /\ qids = <<>>
    /\ org_i = 1
    /\ org_pc = "collect"
    /\ org_result = <<>>

\* Lines 185-187: one employment.
OrgCollect ==
    /\ org_pc = "collect"
    /\ org_i <= Len(org_emps)
    /\ organisations' = IF InList(org_emps[org_i][3], organisations)
                        THEN organisations
                        ELSE Append(organisations, org_emps[org_i][3])
    /\ org_i' = org_i + 1
    /\ UNCHANGED <<org_emps, resolver, qids, org_pc, org_result>>
    /\ UNCHANGED orgRest

\* Line 189: the first loop is through.
OrgCollected ==
    /\ org_pc = "collect"
    /\ org_i > Len(org_emps)
    /\ org_pc' = "resolve"
    /\ org_i' = 1
    /\ UNCHANGED <<org_emps, resolver, organisations, qids, org_result>>
    /\ UNCHANGED orgRest

\* Lines 191-195: one organisation.
OrgResolve ==
    /\ org_pc = "resolve"
    /\ org_i <= Len(organisations)
    /\ LET qid == Resolve(resolver, organisations[org_i])
       IN  qids' = IF QidSeen(qids, qid) THEN qids
                   ELSE PutQid(qids, qid, organisations[org_i])
    /\ org_i' = org_i + 1
    /\ UNCHANGED <<org_emps, resolver, organisations, org_pc, org_result>>
    /\ UNCHANGED orgRest

\* Line 197
OrgReturn ==
    /\ org_pc = "resolve"
    /\ org_i > Len(organisations)
    /\ org_result' = DictValues(qids)
    /\ org_pc' = "returned"
    /\ UNCHANGED <<org_emps, resolver, organisations, qids, org_i>>
    /\ UNCHANGED orgRest

NextOrganisation == OrgCollect \/ OrgCollected \/ OrgResolve \/ OrgReturn

SpecOrganisation == InitOrganisation /\ [][NextOrganisation]_vars

\* The lookup key of an organization name: its QID, or the name itself when
\* the lookup fails.
KeyOf(name) == IF resolver[name] \in Qids THEN resolver[name] ELSE name

\* The position of the first employment at the organization name / with
\* the lookup key.
FirstAt(name) == CHOOSE i \in 1..Len(org_emps) :
                    /\ org_emps[i][3] = name
                    /\ \A j \in 1..(i - 1) : org_emps[j][3] # name
FirstWithKey(key) == CHOOSE i \in 1..Len(org_emps) :
                        /\ KeyOf(org_emps[i][3]) = key
                        /\ \A j \in 1..(i - 1) : KeyOf(org_emps[j][3]) # key

\* C12: get_organisation returns one organization name per distinct lookup
\* key of the current employments: the name of the first employment with
\* that key, in the order of those first employments; a name whose lookup
\* fails is its own key, so two unresolved spellings are both returned.
C12_OnePerLookupKey ==
    org_pc = "returned" =>
        LET n == Len(org_result)
            keys == {KeyOf(org_emps[i][3]) : i \in 1..Len(org_emps)}
        IN  /\ {KeyOf(org_result[k]) : k \in 1..n} = keys
            /\ n = Cardinality(keys)
            /\ \A k \in 1..n :
                  org_result[k] = org_emps[FirstWithKey(KeyOf(org_result[k]))][3]
            /\ \A k, l \in 1..n :
                  k < l => FirstAt(org_result[k]) < FirstAt(org_result[l])
            /\ \A i, j \in 1..Len(org_emps) :
                  (/\ org_emps[i][3] # org_emps[j][3]
                   /\ resolver[org_emps[i][3]] = "echo"
                   /\ resolver[org_emps[j][3]] = "echo")
                     => /\ InList(org_emps[i][3], org_result)
                        /\ InList(org_emps[j][3], org_result)

\* C12 witness: "Uni B", "Uni-A", "Uni A" where both spellings of A resolve
\* to Q1 and "Uni B" is not found: "Uni B" and "Uni-A" are returned.
C12_Witness ==
    /\ org_pc = "returned"
    /\ [i \in 1..Len(org_emps) |-> org_emps[i][3]] = <<"Uni B", "Uni-A", "Uni A">>
    /\ resolver["Uni A"] = "Q1"
    /\ resolver["Uni-A"] = "Q1"
    /\ resolver["Uni B"] = "echo"
    /\ org_result = <<"Uni B", "Uni-A">>

(***************************************************************************)
(* SpecFiles: the file operations, by how each opens its file and how its  *)
(* body can end.  A with-statement closes the file object on every exit of *)
(* its block; a file object bound to a local name is closed only when the  *)
(* interpreter finalises it, which it may do at the return or later, and   *)
(* not while a raised exception's traceback holds the frame.               *)
(***************************************************************************)
FileOps ==
    { "read_orcids_from_csv", "create_tadirah_map", "add_properties_from_csv",
      "deserialize_expertbase", "serialize_expertbase", "parse_yml",
      "parse_qmd template", "parse_qmd output" }

\* open(...) as the context expression of a with-statement
Scoped(op) == op # "add_properties_from_csv"

\* How the body after the open can end.
Endings(op) ==
    IF op = "add_properties_from_csv" THEN {"return", "early", "raised"}
    ELSE {"return", "raised"}

InitFiles ==
    /\ EmpIdle
    /\ WikiIdle
    /\ BaseIdle
    /\ OrgIdle
    /\ ReadIdle
    /\ file_op = ""
    /\ file_pc = "idle"
    /\ file_end = ""
    /\ handles = <<>>

\* The operation is called and open() succeeds.
FileOpen ==
    /\ file_pc \in {"idle", "ended"}
    /\ Len(handles) < MaxOps
    /\ \E op \in FileOps :
          /\ file_op' = op
          /\ handles' = Append(handles, [op |-> op, open |-> TRUE])
    /\ file_pc' = "opened"
    /\ file_end' = ""
    /\ UNCHANGED fileRest

\* The operation is called and open() raises: there is no file object.
FileOpenFails ==
    /\ file_pc \in {"idle", "ended"}
    /\ Len(handles) < MaxOps
    /\ \E op \in FileOps : file_op' = op
    /\ file_pc' = "ended"
    /\ file_end' = "raised"
    /\ UNCHANGED handles
    /\ UNCHANGED fileRest

\* The body ends.  The with-statement closes the file object; the local
\* csv_file of add_properties_from_csv is never closed by the code.
FileBodyEnds ==
    /\ file_pc = "opened"
    /\ \E end \in Endings(file_op), finalised \in BOOLEAN :
          /\ file_end' = end
          /\ handles' =
                [handles EXCEPT ![Len(handles)].open =
                    IF Scoped(file_op) THEN FALSE
                    ELSE IF end = "raised" THEN TRUE
                    ELSE ~finalised]
    /\ file_pc' = "ended"
    /\ UNCHANGED file_op
    /\ UNCHANGED fileRest

NextFiles == FileOpen \/ FileOpenFails \/ FileBodyEnds

SpecFiles == InitFiles /\ [][NextFiles]_vars

\* C14: when a file operation has ended, by normal return, by the early
\* return on a malformed header or by a raised error, every file object it
\* opened is closed.
C14_HandlesClosed ==
    file_pc = "ended" => \A i \in 1..Len(handles) : ~handles[i].open

(***************************************************************************)
(* SpecRead: the read accessors of Expert, called on the records of a      *)
(* populated ExpertBase (as parse_yml and parse_qmd call them).            *)
(***************************************************************************)
StrOut(str) == [kind |-> "str", s |-> str, items |-> <<>>]
ListOut(items) == [kind |-> "list", s |-> "", items |-> items]

\* The strings of the list object ref.
ListStrings(h, ref) == [i \in 1..Len(h[ref].items) |-> h[ref].items[i].s]

\* Lines 216-218 from position i on: a keyword that does not begin with a
\* letter or digit is replaced, in the list the loop runs over; keyword[0]
\* raises on an empty keyword.
RECURSIVE CleanKeywords(_, _)
CleanKeywords(kws, i) ==
    IF i > Len(kws) THEN [kws |-> kws, exc |-> ""]
    ELSE IF kws[i] = "" THEN [kws |-> kws, exc |-> "IndexError"]
    ELSE LET kws1 == IF IsAlnum(Chars(kws[i])[1]) THEN kws
                     ELSE [kws EXCEPT ![i] = DropBrackets(kws[i])]
         IN  Then(kws1, CleanKeywords(kws1, i + 1))

\* Expert.get_research_interest(formated=True), lines 210-222.  The list the
\* loop runs over is the record's own list unless line 213 made a new one.
get_research_interest(props, h) ==
    LET ref == props[FKeywords].r
        own == ListStrings(h, ref)
        split == Len(own) = 1 /\ HasComma(own[1])
        parts == SplitComma(own[1])
        kws == IF split THEN [i \in 1..Len(parts) |-> Strip(parts[i])] ELSE own
        r == CleanKeywords(kws, 1)
    IN  [heap |-> IF split THEN h
                  ELSE [h EXCEPT ![ref] =
                           [kind |-> h[ref].kind,
                            items |-> [i \in 1..Len(r.kws) |-> StrV(r.kws[i])]]],
         exc |-> r.exc,
         out |-> IF r.exc # "" THEN NoOut
                 ELSE StrOut(Join([i \in 1..Len(r.kws) |-> Title(r.kws[i])], ";"))]

\* Expert.get_tadirah(formated=True), lines 236-237
get_tadirah(props, h) ==
    IF FTadirah \in DOMAIN props
    THEN StrOut(Join(ListStrings(h, props[FTadirah].r), ";"))
    ELSE StrOut("")

\* Expert.get_name(formated=True), line 128
get_name(props) ==
    StrOut(DictGet(props, FVorname, StrV("")).s \o " "
              \o DictGet(props, FNachname, StrV("")).s)

\* Expert.get_current_employment(n, formated=True), lines 153-163
get_current_employment(props, h, n) ==
    LET emps == h[props[FEmployment].r].items
        parts(i) == SelectSeq(ListStrings(h, emps[i].r), LAMBDA part : part # "")
        lines == [i \in 1..Min(n, Len(emps)) |-> "* " \o Join(parts(i), ", ")]
    IN  StrOut(Join(lines, "\n"))

\* Expert.get_mail, line 175
get_mail(props) ==
    LET mail == DictGet(props, FMail, StrV(""))
    IN  IF mail.t = "none" THEN NoOut ELSE StrOut(mail.s)

Keywords == {"nlp", "(ocr)", "#tag", "a, b", ""}

\* The sample ExpertBase with kws as the research interests of 0001.
ReadBase(kws) ==
    [base |-> SampleBase.base, raw_base |-> SampleBase.raw_base,
     heap |-> [SampleBase.heap EXCEPT ![SampleBase.base["0001"][FKeywords].r] =
                  [kind |-> "list", items |-> [i \in 1..Len(kws) |-> StrV(kws[i])]]]]

InitRead ==
    /\ EmpIdle
    /\ WikiIdle
    /\ PopulateIdle
    /\ StoreIdle
    /\ MergeIdle
    /\ AliasIdle
    /\ OrgIdle
    /\ FileIdle
    /\ \E kws \in SeqsUpTo(Keywords, MaxKeywords) :
          /\ base = ReadBase(kws).base
          /\ raw_base = ReadBase(kws).raw_base
          /\ heap = ReadBase(kws).heap
    /\ before = [base |-> DeepBase(base, heap), raw |-> DeepBase(raw_base, heap),
                 dump |-> JsonDump(raw_base, heap)]
    /\ reads = 0
    /\ read_out = NoOut
    /\ read_exc = ""

ReadResearchInterest ==
    /\ reads < MaxReads
    /\ \E o \in DOMAIN base :
          LET r == get_research_interest(base[o], heap)
          IN  /\ heap' = r.heap
              /\ read_out' = r.out
              /\ read_exc' = r.exc
    /\ reads' = reads + 1
    /\ UNCHANGED <<before, base, raw_base, readRest>>

\* get_research_interest(formated=False), line 224: the record's own list
ReadResearchInterestRaw ==
    /\ reads < MaxReads
    /\ \E o \in DOMAIN base :
          read_out' = ListOut(ListStrings(heap, base[o][FKeywords].r))
    /\ read_exc' = ""
    /\ reads' = reads + 1
    /\ UNCHANGED <<before, ebVars, readRest>>

ReadTadirah ==
    /\ reads < MaxReads
    /\ \E o \in DOMAIN base : read_out' = get_tadirah(base[o], heap)
    /\ read_exc' = ""
    /\ reads' = reads + 1
    /\ UNCHANGED <<before, ebVars, readRest>>

ReadName ==
    /\ reads < MaxReads
    /\ \E o \in DOMAIN base : read_out' = get_name(base[o])
    /\ read_exc' = ""
    /\ reads' = reads + 1
    /\ UNCHANGED <<before, ebVars, readRest>>

ReadCurrentEmployment ==
    /\ reads < MaxReads
    /\ \E o \in DOMAIN base, n \in {1, 3} :
          read_out' = get_current_employment(base[o], heap, n)
    /\ read_exc' = ""
    /\ reads' = reads + 1
    /\ UNCHANGED <<before, ebVars, readRest>>

ReadMail ==
    /\ reads < MaxReads
    /\ \E o \in DOMAIN base : read_out' = get_mail(base[o])
    /\ read_exc' = ""
    /\ reads' = reads + 1
    /\ UNCHANGED <<before, ebVars, readRest>>

NextRead ==
    \/ ReadResearchInterest \/ ReadResearchInterestRaw \/ ReadTadirah
    \/ ReadName \/ ReadCurrentEmployment \/ ReadMail

SpecRead == InitRead /\ [][NextRead]_vars

\* C15: after any calls of get_research_interest (formatted or raw),
\* get_tadirah, get_name, get_current_employment and get_mail, every
\* record's properties and its raw_base entry are what they were before the
\* calls, keywords that begin with "(" or "#" included, and so is the JSON
\* serialize_expertbase writes.
C15_ReadsLeaveRecord ==
    /\ DeepBase(base, heap) = before.base
    /\ DeepBase(raw_base, heap) = before.raw
    /\ JsonDump(raw_base, heap) = before.dump

====
